---- MODULE Spec2Model ----
(***************************************************************************)
(* Model of src/src/App.tsx: the PeerJS file-share component.  Two App     *)
(* instances (peers "A" and "B") are joined by one PeerJS DataConnection.  *)
(* Every JavaScript task (a click handler, a "data" event, a timer, the    *)
(* continuation of an awaited promise together with the microtasks it      *)
(* queues) is one action: the event loop runs a task to completion before  *)
(* it starts the next one.                                                 *)
(***************************************************************************)
EXTENDS Integers, Sequences, FiniteSets, TLC

VARIABLES
    \* ---- React state and refs of each App instance (lines 18-33) ----
    conn,            \* [Peers -> NULL or TheConn]          line 22
    connected,       \* [Peers -> BOOLEAN]                  line 21
    status,          \* [Peers -> STRING]                   line 20 (texts without their ellipsis)
    file,            \* [Peers -> NULL or a file]           line 23
    sendProgress,    \* [Peers -> Int]                      line 24
    recvProgress,    \* [Peers -> Int]                      line 25
    receiveBuffers,  \* [Peers -> Seq(Seq(Byte))]           line 29
    expectedChunks,  \* [Peers -> Nat]                      line 30
    receivedBytes,   \* [Peers -> Nat]                      line 31
    metaRef,         \* [Peers -> NULL or a meta message]   line 32
    busyRef,         \* [Peers -> BOOLEAN]                  line 33
    chunkSize,       \* the piece size of line 35 (drawn in Init, then fixed)
    \* ---- the suspended sendFile invocation of each peer (lines 131-159) ----
    run,             \* [Peers -> [pc, offset, index, buf, conn]]
    later,           \* the same for a second invocation, started by a later click
    \* ---- the DataConnection ----
    chan,            \* "none" | "offered" | "answered" | "open" | "closed"
    attached,        \* [Peers -> BOOLEAN]: handlers of lines 74/116 registered, close not yet fired
    inbox,           \* [Peers -> Seq(message)]: messages in flight towards each peer
    lost,            \* number of messages the transport has lost (SpecLoss)
    \* ---- observers (no effect on the program) ----
    sendCalls,       \* [Peers -> Seq(message)]: every argument sendFile passed to conn.send
    handled,         \* [Peers -> Seq(message)]: every message the data handler was called with
    ackCalls,        \* [Peers -> Seq(message)]: every argument the data handler passed to c.send
    sendProgressLog, \* [Peers -> Seq(Int)]: values passed to setSendProgress in the current run
    recvProgressLog, \* [Peers -> Seq(Int)]: values passed to setRecvProgress since the last meta
    saved,           \* [Peers -> Seq(artifact)]: every download triggered (lines 101-109)
    recvIdle,        \* [Peers -> BOOLEAN]: no meta handled since the last eof that saved
    injected         \* number of messages the remote side has injected (SpecRecv)

vars == <<conn, connected, status, file, sendProgress, recvProgress,
          receiveBuffers, expectedChunks, receivedBytes, metaRef, busyRef,
          chunkSize, run, chan, attached, inbox, sendCalls, handled,
          sendProgressLog, recvProgressLog, saved, recvIdle, injected,
          later, lost, ackCalls>>

appVars  == <<conn, connected, status, file, sendProgress, recvProgress>>
recvVars == <<receiveBuffers, expectedChunks, receivedBytes, metaRef>>
obsVars  == <<sendCalls, handled, ackCalls, sendProgressLog, recvProgressLog, saved, recvIdle>>

(***************************************************************************)
(* Bounds of the model.                                                    *)
(***************************************************************************)
\* largest file.size, in bytes
MaxSize == 4
\* largest piece size drawn for chunkSize (the source fixes 16 * 1024)
MaxChunkSize == 3
\* bytes are 0..MaxByte
MaxByte == 1
\* messages an arbitrary remote side injects in SpecRecv
MaxInject == 5

Peers == {"A", "B"}
Other(p) == IF p = "A" THEN "B" ELSE "A"
Bytes == 0..MaxByte

NULL == [null |-> TRUE]
TheConn == [conn |-> "c"]
\* Math.floor(NaN) passed to a progress setter
NaN == 0 - 2

Min(a, b) == IF a < b THEN a ELSE b
Last(s) == s[Len(s)]

(***************************************************************************)
(* Messages (lines 4-15) and the files a user can pick.                    *)
(***************************************************************************)
RECURSIVE SeqsUpTo(_, _)
SeqsUpTo(S, n) == IF n = 0 THEN {<<>>} ELSE SeqsUpTo(S, n - 1) \cup [1..n -> S]

FileTypes == {"", "text/plain"}
Files == { [name |-> "f", size |-> Len(b), type |-> t, bytes |-> b] :
              b \in SeqsUpTo(Bytes, MaxSize), t \in FileTypes }

Chunk(i, buf) == [type |-> "chunk", index |-> i, payload |-> buf]
Eof == [type |-> "eof"]
Ack(i) == [type |-> "ack", index |-> i]

\* file.type || "application/octet-stream"
MimeOf(f) == IF f.type = "" THEN "application/octet-stream" ELSE f.type

MetaOf(f, cs) == [type |-> "meta", name |-> f.name, size |-> f.size,
                  mime |-> MimeOf(f), chunkSize |-> cs]

(***************************************************************************)
(* Pure computations of the source.                                        *)
(***************************************************************************)
\* a slip: the quotient rounded down
FloorDiv(a, b) == a \div b

\* Math.ceil(a / b), b > 0
CeilDiv(a, b) == (a + b - 1) \div b

\* a slip: the end of the slice taken as inclusive, one byte short
SliceShort(bytes, from, to) == SubSeq(bytes, from + 1, Min(to - 1, Len(bytes)))

\* file.slice(from, to): bytes from..to-1 (0-based), cut at the end of the file
Slice(bytes, from, to) == SubSeq(bytes, from + 1, Min(to, Len(bytes)))

\* a slip: the percentage not clamped to 100
SendPercentUnclamped(offset, size) ==
    IF size = 0 THEN (IF offset = 0 THEN NaN ELSE 100)
    ELSE (offset * 100) \div size

\* Math.min(100, Math.floor((offset / file.size) * 100)): n/0 is Infinity for
\* n > 0 (clamped to 100) and 0/0 is NaN.  The source computes the quotient
\* in floating point; division and multiplication are monotone there too
\* and x / x = 1 exactly.
SendPercent(offset, size) ==
    IF size = 0 THEN (IF offset = 0 THEN NaN ELSE 100)
    ELSE Min(100, (offset * 100) \div size)

\* Math.min(100, Math.floor((receivedBytes / size) * 100)), as SendPercent
RecvPercent(bytes, size) ==
    IF size = 0 THEN (IF bytes = 0 THEN NaN ELSE 100)
    ELSE Min(100, (bytes * 100) \div size)

\* new Blob(buffers): the buffers' bytes, one after the other
RECURSIVE Concat(_)
Concat(bufs) == IF bufs = <<>> THEN <<>> ELSE Head(bufs) \o Concat(Tail(bufs))

(***************************************************************************)
(* The "data" handler of wireConnection (lines 74-115), one operator per   *)
(* branch.  c.send of lines 83 and 97 is Reply.                            *)
(***************************************************************************)
\* a slip: the meta branch keeps the buffers of the transfer it abandons
OnMetaKeepsBuffers(p, m) ==
    /\ metaRef' = [metaRef EXCEPT ![p] = m]
    /\ expectedChunks' = [expectedChunks EXCEPT ![p] = CeilDiv(m.size, m.chunkSize)]
    /\ receivedBytes' = [receivedBytes EXCEPT ![p] = 0]
    /\ recvProgress' = [recvProgress EXCEPT ![p] = 0]
    /\ recvProgressLog' = [recvProgressLog EXCEPT ![p] = <<0>>]
    /\ recvIdle' = [recvIdle EXCEPT ![p] = FALSE]
    /\ UNCHANGED <<receiveBuffers, status, busyRef, saved>>

OnMeta(p, m) ==
    /\ metaRef' = [metaRef EXCEPT ![p] = m]
    /\ expectedChunks' = [expectedChunks EXCEPT ![p] = CeilDiv(m.size, m.chunkSize)]
    /\ receiveBuffers' = [receiveBuffers EXCEPT ![p] = <<>>]
    /\ receivedBytes' = [receivedBytes EXCEPT ![p] = 0]
    /\ recvProgress' = [recvProgress EXCEPT ![p] = 0]
    /\ recvProgressLog' = [recvProgressLog EXCEPT ![p] = <<0>>]
    /\ recvIdle' = [recvIdle EXCEPT ![p] = FALSE]
    /\ UNCHANGED <<status, busyRef, saved>>

\* a slip: the chunk branch clears the sender's flag, as the ack branch does
OnChunkFreesFlag(p, ch) ==
    LET bytes == receivedBytes[p] + Len(ch.payload)
        pct   == RecvPercent(bytes, metaRef[p].size)
    IN  /\ receiveBuffers' = [receiveBuffers EXCEPT ![p] = Append(@, ch.payload)]
        /\ receivedBytes' = [receivedBytes EXCEPT ![p] = bytes]
        /\ busyRef' = [busyRef EXCEPT ![p] = FALSE]
        /\ IF metaRef[p] # NULL
           THEN /\ recvProgress' = [recvProgress EXCEPT ![p] = pct]
                /\ recvProgressLog' = [recvProgressLog EXCEPT ![p] = Append(@, pct)]
           ELSE UNCHANGED <<recvProgress, recvProgressLog>>
        /\ UNCHANGED <<metaRef, expectedChunks, status, saved, recvIdle>>

OnChunk(p, ch) ==
    LET bytes == receivedBytes[p] + Len(ch.payload)
        pct   == RecvPercent(bytes, metaRef[p].size)
    IN  /\ receiveBuffers' = [receiveBuffers EXCEPT ![p] = Append(@, ch.payload)]
        /\ receivedBytes' = [receivedBytes EXCEPT ![p] = bytes]
        /\ IF metaRef[p] # NULL
           THEN /\ recvProgress' = [recvProgress EXCEPT ![p] = pct]
                /\ recvProgressLog' = [recvProgressLog EXCEPT ![p] = Append(@, pct)]
           ELSE UNCHANGED <<recvProgress, recvProgressLog>>
        /\ UNCHANGED <<metaRef, expectedChunks, status, busyRef, saved, recvIdle>>

OnEof(p) ==
    LET m == metaRef[p]
    IN  IF m = NULL
        THEN UNCHANGED <<recvVars, recvProgress, recvProgressLog, status,
                         busyRef, saved, recvIdle>>
        ELSE /\ saved' = [saved EXCEPT ![p] =
                    Append(@, [name |-> m.name, mime |-> m.mime,
                               bytes |-> Concat(receiveBuffers[p])])]
             /\ status' = [status EXCEPT ![p] = "Received file"]
             /\ recvProgress' = [recvProgress EXCEPT ![p] = 100]
             /\ recvProgressLog' = [recvProgressLog EXCEPT ![p] = Append(@, 100)]
             /\ recvIdle' = [recvIdle EXCEPT ![p] = TRUE]
             /\ UNCHANGED <<recvVars, busyRef>>

OnAck(p) ==
    /\ busyRef' = [busyRef EXCEPT ![p] = FALSE]
    /\ UNCHANGED <<recvVars, recvProgress, recvProgressLog, status, saved, recvIdle>>

\* a slip: every message that is not an ack is acknowledged, the eof too
ReplyToAll(msg) ==
    IF msg.type = "chunk" THEN <<Ack(msg.index)>>
    ELSE IF msg.type = "ack" THEN <<>>
    ELSE <<Ack(0 - 1)>>

\* the acknowledgement the handler sends back for msg
Reply(msg) ==
    IF msg.type = "meta" THEN <<Ack(0 - 1)>>
    ELSE IF msg.type = "chunk" THEN <<Ack(msg.index)>>
    ELSE <<>>

DataHandler(p, msg) ==
    /\ handled' = [handled EXCEPT ![p] = Append(@, msg)]
    /\ ackCalls' = [ackCalls EXCEPT ![p] = @ \o Reply(msg)]
    /\ IF msg.type = "meta" THEN OnMeta(p, msg)
       ELSE IF msg.type = "chunk" THEN OnChunk(p, msg)
       ELSE IF msg.type = "eof" THEN OnEof(p)
       ELSE OnAck(p)

\* conn.send(m) on a DataConnection: queued for the other side while the
\* connection is open, otherwise not transmitted
Transmit(box, to, msgs) ==
    IF chan = "open" THEN [box EXCEPT ![to] = @ \o msgs] ELSE box

(***************************************************************************)
(* sendFile (lines 131-159) and waitForAck (lines 161-174).  A frame is    *)
(* the invocation while a task runs it: the suspended run plus busyRef,    *)
(* the messages passed to conn.send, the progress values and the status    *)
(* set so far.  pc names the source line the invocation is at; it is       *)
(* suspended at "l147" (await slice.arrayBuffer()), at "t148" and "t155"   *)
(* (the setTimeout of line 169 pending, for the wait of line 148 or 155).  *)
(***************************************************************************)
Suspended == {"idle", "l147", "t148", "t155", "done"}

IdleRun == [pc |-> "idle", offset |-> 0, index |-> 0, buf |-> <<>>, conn |-> NULL]

\* a slip: trySend resolves on a clear flag without taking it
TrySendNoSet(f, resume, timer) ==
    IF ~f.busy THEN [f EXCEPT !.pc = resume]
    ELSE [f EXCEPT !.pc = timer]

\* trySend (lines 164-171): take the flag and resolve, or re-arm the timer
TrySend(f, resume, timer) ==
    IF ~f.busy THEN [f EXCEPT !.busy = TRUE, !.pc = resume]
    ELSE [f EXCEPT !.pc = timer]

\* waitForAck (lines 161-174), called with the conn the closure captured
WaitForAck(f, resume, timer) ==
    IF f.conn = NULL THEN [f EXCEPT !.pc = resume]
    ELSE TrySend(f, resume, timer)

\* a slip: the loop test taken as offset <= file.size
LoopTestInclusive(f, size) ==
    IF f.offset <= size THEN [f EXCEPT !.pc = "l147"] ELSE [f EXCEPT !.pc = "l155"]

\* line 145: while (offset < file.size)
LoopTest(f, size) ==
    IF f.offset < size THEN [f EXCEPT !.pc = "l147"] ELSE [f EXCEPT !.pc = "l155"]

\* lines 149-153: send the chunk, advance, report progress
SendChunk(f, size, cs) ==
    [f EXCEPT !.out = Append(@, Chunk(f.index, f.buf)),
              !.offset = @ + cs,
              !.index = @ + 1,
              !.log = Append(@, SendPercent(f.offset + cs, size)),
              !.pc = "l145"]

\* lines 156-158: send eof, report 100
SendEof(f) ==
    [f EXCEPT !.out = Append(@, Eof),
              !.log = Append(@, 100),
              !.status = "Sent",
              !.pc = "done"]

\* one statement of sendFile
Step(f, size, cs) ==
    CASE f.pc = "l145" -> LoopTest(f, size)
      [] f.pc = "l148" -> WaitForAck(f, "l149", "t148")
      [] f.pc = "l149" -> SendChunk(f, size, cs)
      [] f.pc = "l155" -> WaitForAck(f, "l156", "t155")
      [] f.pc = "l156" -> SendEof(f)

\* run the invocation until it suspends or returns
RECURSIVE RunTask(_, _, _)
RunTask(f, size, cs) ==
    IF f.pc \in Suspended THEN f ELSE RunTask(Step(f, size, cs), size, cs)

\* the frame of a suspended invocation r of p, resumed at pc
ResumeOf(r, p, pc) ==
    [pc |-> pc, offset |-> r.offset, index |-> r.index,
     buf |-> r.buf, conn |-> r.conn, busy |-> busyRef[p],
     out |-> <<>>, log |-> sendProgressLog[p], status |-> status[p]]

Resume(p, pc) == ResumeOf(run[p], p, pc)

\* the invocation a frame suspends as
Suspend(f) == [pc |-> f.pc, offset |-> f.offset, index |-> f.index,
               buf |-> f.buf, conn |-> f.conn]

\* what a task of sendFile leaves behind in the state it shares
TaskEffects(p, f) ==
    /\ busyRef' = [busyRef EXCEPT ![p] = f.busy]
    /\ inbox' = Transmit(inbox, Other(p), f.out)
    /\ sendCalls' = [sendCalls EXCEPT ![p] = @ \o f.out]
    /\ sendProgressLog' = [sendProgressLog EXCEPT ![p] = f.log]
    /\ sendProgress' = [sendProgress EXCEPT ![p] = Last(f.log)]
    /\ status' = [status EXCEPT ![p] = f.status]
    /\ UNCHANGED <<conn, connected, file, recvProgress, recvVars, chunkSize, chan,
                   attached, handled, ackCalls, recvProgressLog, saved, recvIdle,
                   injected, lost>>

\* the state a task of p's first invocation leaves behind
Commit(p, f) ==
    /\ run' = [run EXCEPT ![p] = Suspend(f)]
    /\ UNCHANGED later
    /\ TaskEffects(p, f)

\* the frame sendFile starts with (lines 132-144)
FirstFrame(p) ==
    [pc |-> "l145", offset |-> 0, index |-> 0, buf |-> <<>>,
     conn |-> conn[p], busy |-> busyRef[p],
     out |-> <<MetaOf(file[p], chunkSize)>>,
     log |-> <<0>>, status |-> "Sending"]

\* click on "Send File" (lines 266-272 and 131-144), up to the first suspension
SendFile(p) ==
    /\ run[p].pc = "idle"
    /\ connected[p]
    /\ file[p] # NULL
    /\ conn[p] # NULL
    /\ Commit(p, RunTask(FirstFrame(p), file[p].size, chunkSize))

\* slice.arrayBuffer() resolves (lines 146-147); the run goes on from line 148
ArrayBufferResolved(p) ==
    /\ run[p].pc = "l147"
    /\ Commit(p, RunTask([Resume(p, "l148") EXCEPT
                             !.buf = Slice(file[p].bytes, run[p].offset,
                                           run[p].offset + chunkSize)],
                         file[p].size, chunkSize))

\* the timer of line 169 fires: trySend again
Timer(p) ==
    /\ run[p].pc \in {"t148", "t155"}
    /\ Commit(p, RunTask(IF run[p].pc = "t148"
                         THEN TrySend(Resume(p, "t148"), "l149", "t148")
                         ELSE TrySend(Resume(p, "t155"), "l156", "t155"),
                         file[p].size, chunkSize))

(***************************************************************************)
(* The user and the connection.                                            *)
(***************************************************************************)
\* the file input's onChange (lines 262-264), once per peer
SetFile(p) ==
    /\ file[p] = NULL
    /\ \E f \in Files : file' = [file EXCEPT ![p] = f]
    /\ UNCHANGED <<conn, connected, status, sendProgress, recvProgress, recvVars,
                   busyRef, chunkSize, run, chan, attached, inbox, obsVars, injected, later, lost>>

\* wireConnection (lines 70-73 and the registrations of lines 74 and 116)
WireConnection(p) ==
    /\ conn' = [conn EXCEPT ![p] = TheConn]
    /\ connected' = [connected EXCEPT ![p] = TRUE]
    /\ status' = [status EXCEPT ![p] = "Connected"]
    /\ attached' = [attached EXCEPT ![p] = TRUE]

\* connect (lines 123-129)
Connect(p) ==
    /\ chan = "none"
    /\ ~connected[p]
    /\ chan' = "offered"
    /\ status' = [status EXCEPT ![p] = "Connecting"]
    /\ UNCHANGED <<conn, connected, file, sendProgress, recvProgress, recvVars,
                   busyRef, chunkSize, run, attached, inbox, obsVars, injected, later, lost>>

\* the callee's "connection" event (lines 53-55)
OnConnection(p) ==
    /\ chan = "offered"
    /\ chan' = "answered"
    /\ WireConnection(p)
    /\ UNCHANGED <<file, sendProgress, recvProgress, recvVars, busyRef, chunkSize,
                   run, inbox, obsVars, injected, later, lost>>

\* the caller's "open" event (line 127)
OnOpen(p) ==
    /\ chan = "answered"
    /\ chan' = "open"
    /\ WireConnection(p)
    /\ UNCHANGED <<file, sendProgress, recvProgress, recvVars, busyRef, chunkSize,
                   run, inbox, obsVars, injected, later, lost>>

\* a "data" event: the next message in flight reaches p's handler
Deliver(p) ==
    /\ attached[p]
    /\ inbox[p] # <<>>
    /\ DataHandler(p, Head(inbox[p]))
    /\ inbox' = Transmit([inbox EXCEPT ![p] = Tail(@)], Other(p), Reply(Head(inbox[p])))
    /\ UNCHANGED <<conn, connected, file, sendProgress, chunkSize, run, chan,
                   attached, sendCalls, sendProgressLog, injected, later, lost>>

\* the transport drops the connection
ChannelClose ==
    /\ chan = "open"
    /\ chan' = "closed"
    /\ UNCHANGED <<appVars, recvVars, busyRef, chunkSize, run, attached, inbox,
                   obsVars, injected, later, lost>>

\* the "close" handler (lines 116-120)
CloseHandler(p) ==
    /\ chan = "closed"
    /\ attached[p]
    /\ attached' = [attached EXCEPT ![p] = FALSE]
    /\ connected' = [connected EXCEPT ![p] = FALSE]
    /\ conn' = [conn EXCEPT ![p] = NULL]
    /\ status' = [status EXCEPT ![p] = "Disconnected"]
    /\ UNCHANGED <<file, sendProgress, recvProgress, recvVars, busyRef, chunkSize,
                   run, chan, inbox, obsVars, injected, later, lost>>

\* disconnect (lines 182-187); conn.close() fires p's own close handler first
Disconnect(p) ==
    /\ connected[p]
    /\ chan' = (IF conn[p] # NULL THEN "closed" ELSE chan)
    /\ attached' = [attached EXCEPT ![p] = FALSE]
    /\ conn' = [conn EXCEPT ![p] = NULL]
    /\ connected' = [connected EXCEPT ![p] = FALSE]
    /\ status' = [status EXCEPT ![p] = "Idle"]
    /\ UNCHANGED <<file, sendProgress, recvProgress, recvVars, busyRef, chunkSize,
                   run, inbox, obsVars, injected, later, lost>>

(***************************************************************************)
(* An arbitrary remote side: any message of the four kinds may arrive.     *)
(***************************************************************************)
InjectMetas == { [type |-> "meta", name |-> "g", size |-> sc[1], mime |-> "text/plain",
                  chunkSize |-> sc[2]] : sc \in {<<0, 1>>, <<3, 2>>, <<2, 2>>} }
InjectMsgs == InjectMetas \cup {Chunk(0, <<0>>), Chunk(1, <<1, 0>>), Eof, Ack(0)}

Inject(p) ==
    /\ attached[p]
    /\ injected < MaxInject
    /\ injected' = injected + 1
    /\ \E msg \in InjectMsgs :
          /\ DataHandler(p, msg)
          /\ inbox' = Transmit(inbox, Other(p), Reply(msg))
    /\ UNCHANGED <<conn, connected, file, sendProgress, chunkSize, run, chan,
                   attached, sendCalls, sendProgressLog, later, lost>>

(***************************************************************************)
(* A second click on "Send File": the button (lines 266-272) is disabled   *)
(* only while there is no connection or no file, and sendFile (line 132)   *)
(* tests nothing else, so a second invocation can start at any time after  *)
(* the first click.  It shares busyRef, conn and the progress state.       *)
(***************************************************************************)
\* the state a task of p's second invocation leaves behind
CommitLater(p, f) ==
    /\ later' = [later EXCEPT ![p] = Suspend(f)]
    /\ UNCHANGED run
    /\ TaskEffects(p, f)

SendFileAgain(p) ==
    /\ run[p].pc # "idle"
    /\ later[p].pc = "idle"
    /\ connected[p]
    /\ file[p] # NULL
    /\ conn[p] # NULL
    /\ CommitLater(p, RunTask(FirstFrame(p), file[p].size, chunkSize))

\* the second click, made once the first invocation has returned
SendFileNext(p) ==
    /\ run[p].pc = "done"
    /\ SendFileAgain(p)

ArrayBufferResolvedLater(p) ==
    /\ later[p].pc = "l147"
    /\ CommitLater(p, RunTask([ResumeOf(later[p], p, "l148") EXCEPT
                                  !.buf = Slice(file[p].bytes, later[p].offset,
                                                later[p].offset + chunkSize)],
                              file[p].size, chunkSize))

TimerLater(p) ==
    /\ later[p].pc \in {"t148", "t155"}
    /\ CommitLater(p, RunTask(IF later[p].pc = "t148"
                              THEN TrySend(ResumeOf(later[p], p, "t148"), "l149", "t148")
                              ELSE TrySend(ResumeOf(later[p], p, "t155"), "l156", "t155"),
                              file[p].size, chunkSize))

(***************************************************************************)
(* A transport that breaks its guarantee: it loses one message (a meta, a  *)
(* chunk or an ack) on its way to p.                                       *)
(***************************************************************************)
Lose(p) ==
    /\ lost = 0
    /\ \E i \in 1..Len(inbox[p]) :
          /\ inbox[p][i].type \in {"meta", "chunk", "ack"}
          /\ inbox' = [inbox EXCEPT ![p] =
                          SubSeq(@, 1, i - 1) \o SubSeq(@, i + 1, Len(@))]
    /\ lost' = lost + 1
    /\ UNCHANGED <<appVars, recvVars, busyRef, chunkSize, run, chan, attached,
                   obsVars, injected, later>>

(***************************************************************************)
(* A small choice of files, for the specifications with two senders or     *)
(* two overlapping invocations.                                            *)
(***************************************************************************)
DuplexFiles == { [name |-> "f", size |-> Len(b), type |-> "", bytes |-> b] :
                    b \in {<<>>, <<0>>, <<1, 0>>, <<0, 1, 1>>} }

PickFile(p) ==
    /\ file[p] = NULL
    /\ \E f \in DuplexFiles : file' = [file EXCEPT ![p] = f]
    /\ UNCHANGED <<conn, connected, status, sendProgress, recvProgress, recvVars,
                   busyRef, chunkSize, run, chan, attached, inbox, obsVars, injected,
                   later, lost>>

(***************************************************************************)
(* Specifications.                                                         *)
(***************************************************************************)
Init ==
    /\ conn = [p \in Peers |-> NULL]
    /\ connected = [p \in Peers |-> FALSE]
    /\ status = [p \in Peers |-> "Starting"]
    /\ file = [p \in Peers |-> NULL]
    /\ sendProgress = [p \in Peers |-> 0]
    /\ recvProgress = [p \in Peers |-> 0]
    /\ receiveBuffers = [p \in Peers |-> <<>>]
    /\ expectedChunks = [p \in Peers |-> 0]
    /\ receivedBytes = [p \in Peers |-> 0]
    /\ metaRef = [p \in Peers |-> NULL]
    /\ busyRef = [p \in Peers |-> FALSE]
    /\ chunkSize \in 1..MaxChunkSize
    /\ run = [p \in Peers |-> IdleRun]
    /\ chan = "none"
    /\ attached = [p \in Peers |-> FALSE]
    /\ inbox = [p \in Peers |-> <<>>]
    /\ sendCalls = [p \in Peers |-> <<>>]
    /\ handled = [p \in Peers |-> <<>>]
    /\ sendProgressLog = [p \in Peers |-> <<>>]
    /\ recvProgressLog = [p \in Peers |-> <<>>]
    /\ saved = [p \in Peers |-> <<>>]
    /\ recvIdle = [p \in Peers |-> TRUE]
    /\ injected = 0
    /\ later = [p \in Peers |-> IdleRun]
    /\ lost = 0
    /\ ackCalls = [p \in Peers |-> <<>>]

\* A connects to B and sends one file over a connection that stays open
Next ==
    \/ SetFile("A")
    \/ Connect("A")
    \/ OnConnection("B")
    \/ OnOpen("A")
    \/ SendFile("A")
    \/ ArrayBufferResolved("A")
    \/ Timer("A")
    \/ Deliver("A")
    \/ Deliver("B")

Spec == Init /\ [][Next]_vars

\* the same, with the connection closing at any moment
NextClose ==
    \/ Next
    \/ ChannelClose
    \/ CloseHandler("A")
    \/ CloseHandler("B")
    \/ Disconnect("A")
    \/ Disconnect("B")

SpecClose == Init /\ [][NextClose]_vars

\* B connected to a remote side that sends any sequence of messages
NextRecv ==
    \/ Connect("A")
    \/ OnConnection("B")
    \/ OnOpen("A")
    \/ Inject("B")

InitRecv == Init /\ chunkSize = 1

SpecRecv == InitRecv /\ [][NextRecv]_vars

\* one sender, two invocations of sendFile that may overlap
NextTwo ==
    \/ PickFile("A")
    \/ Connect("A")
    \/ OnConnection("B")
    \/ OnOpen("A")
    \/ SendFile("A")
    \/ ArrayBufferResolved("A")
    \/ Timer("A")
    \/ Deliver("A")
    \/ Deliver("B")
    \/ SendFileAgain("A")
    \/ ArrayBufferResolvedLater("A")
    \/ TimerLater("A")

SpecTwo == Init /\ [][NextTwo]_vars

\* two invocations, the second one started after the first has returned; the
\* event loop runs every pending timer and promise continuation, and the
\* connection delivers every message in flight
NextSeq ==
    \/ PickFile("A")
    \/ Connect("A")
    \/ OnConnection("B")
    \/ OnOpen("A")
    \/ SendFile("A")
    \/ ArrayBufferResolved("A")
    \/ Timer("A")
    \/ Deliver("A")
    \/ Deliver("B")
    \/ SendFileNext("A")
    \/ ArrayBufferResolvedLater("A")
    \/ TimerLater("A")

Fairness ==
    /\ WF_vars(Deliver("A"))
    /\ WF_vars(Deliver("B"))
    /\ WF_vars(ArrayBufferResolved("A"))
    /\ WF_vars(Timer("A"))
    /\ WF_vars(ArrayBufferResolvedLater("A"))
    /\ WF_vars(TimerLater("A"))

SpecLive == Init /\ [][NextSeq]_vars /\ Fairness

\* one invocation over a transport that may lose one message
NextLoss ==
    \/ Next
    \/ Lose("A")
    \/ Lose("B")

SpecLoss == Init /\ [][NextLoss]_vars

\* both peers send a file to each other over the one connection
NextBoth ==
    \/ PickFile("A")
    \/ PickFile("B")
    \/ Connect("A")
    \/ OnConnection("B")
    \/ OnOpen("A")
    \/ SendFile("A")
    \/ SendFile("B")
    \/ ArrayBufferResolved("A")
    \/ ArrayBufferResolved("B")
    \/ Timer("A")
    \/ Timer("B")
    \/ Deliver("A")
    \/ Deliver("B")

SpecBoth == Init /\ [][NextBoth]_vars

(***************************************************************************)
(* Vocabulary of the properties.                                           *)
(***************************************************************************)
IsType(t, m) == m.type = t
IsMeta(m) == IsType("meta", m)
IsChunk(m) == IsType("chunk", m)
IsEof(m) == IsType("eof", m)
IsAck(m) == IsType("ack", m)

\* number of pieces of a payload of S bytes cut into pieces of P bytes
NumPieces(S, P) == CHOOSE n \in 0..S : n * P >= S /\ (n = 0 \/ (n - 1) * P < S)

\* what a message is acknowledged by: -1 for the meta, its index for a chunk
AckIndexOf(m) == IF IsMeta(m) THEN 0 - 1 ELSE m.index

\* the messages p passed to conn.send whose ack p's data handler has not seen
Unacked(p) ==
    { i \in 1..Len(sendCalls[p]) :
        /\ ~IsEof(sendCalls[p][i])
        /\ ~\E j \in 1..Len(handled[p]) :
              IsAck(handled[p][j]) /\ handled[p][j].index = AckIndexOf(sendCalls[p][i]) }

EofSent(p) == \E i \in 1..Len(sendCalls[p]) : IsEof(sendCalls[p][i])
EofHandled(p) == \E i \in 1..Len(handled[p]) : IsEof(handled[p][i])

NonDecreasing(s) == \A i \in 1..(Len(s) - 1) : s[i] <= s[i + 1]
InPercentRange(s) == \A i \in 1..Len(s) : s[i] \in 0..100

\* position of the last meta in a sequence of messages, 0 when there is none
LastMetaPos(h) ==
    IF \E i \in 1..Len(h) : IsMeta(h[i])
    THEN CHOOSE i \in 1..Len(h) : IsMeta(h[i]) /\ \A j \in (i + 1)..Len(h) : ~IsMeta(h[j])
    ELSE 0

\* the payload bytes of the chunks among h[from..Len(h)], in order
RECURSIVE PayloadFrom(_, _)
PayloadFrom(h, from) ==
    IF from > Len(h) THEN <<>>
    ELSE (IF IsChunk(h[from]) THEN h[from].payload ELSE <<>>) \o PayloadFrom(h, from + 1)

(***************************************************************************)
(* C1: at every moment of one sendFile run at most one message (meta or    *)
(* chunk) passed to conn.send is still waiting for its ack to reach the    *)
(* sender's data handler.  The source does not hold: sendFile sends the    *)
(* meta without taking busyRef, so the first waitForAck returns at once.   *)
(***************************************************************************)
C1_AtMostOneUnacked == Cardinality(Unacked("A")) <= 1

(***************************************************************************)
(* C2: when the receiver handles the eof of one sendFile run, the          *)
(* concatenation of receiveBuffers equals the sender's file byte for       *)
(* byte, and so does the artifact it saves (empty for an empty file).      *)
(***************************************************************************)
C2_RoundTrip ==
    /\ (attached["B"] /\ inbox["B"] # <<>> /\ IsEof(Head(inbox["B"])))
          => Concat(receiveBuffers["B"]) = file["A"].bytes
    /\ \A i \in 1..Len(saved["B"]) : saved["B"][i].bytes = file["A"].bytes

C2_Witness ==
    /\ Len(saved["B"]) = 1
    /\ Len(receiveBuffers["B"]) = 2
    /\ file["A"].size = 3
    /\ saved["B"][1].bytes = <<0, 1, 1>>

(***************************************************************************)
(* C3: the messages of one sendFile run are, in this order and once each:  *)
(* one meta, the chunks 0 .. n-1 with n the number of pieces, one eof; the *)
(* run has returned exactly when all n + 2 have been sent.                 *)
(***************************************************************************)
C3_SendOrder ==
    LET s == sendCalls["A"]
        n == NumPieces(file["A"].size, chunkSize)
    IN  s # <<>> =>
          /\ Len(s) <= n + 2
          /\ \A i \in 1..Len(s) :
                /\ i = 1 => IsMeta(s[i])
                /\ (1 < i /\ i <= n + 1) => (IsChunk(s[i]) /\ s[i].index = i - 2)
                /\ i = n + 2 => IsEof(s[i])
          /\ (run["A"].pc = "done") <=> (Len(s) = n + 2)

C3_Witness ==
    /\ run["A"].pc = "done"
    /\ Len(sendCalls["A"]) = 5
    /\ sendCalls["A"][4].index = 2
    /\ IsEof(sendCalls["A"][5])

(***************************************************************************)
(* C4: for an empty file the sender sends the meta, no chunk, and the eof  *)
(* only once the ack with index -1 has reached it; the saved artifact is   *)
(* empty.  The source does not hold: the eof leaves in the task that sent  *)
(* the meta.                                                               *)
(***************************************************************************)
C4_EmptyFileWaitsForReady ==
    (file["A"] # NULL /\ file["A"].size = 0) =>
        /\ \A i \in 1..Len(sendCalls["A"]) : ~IsChunk(sendCalls["A"][i])
        /\ \A i \in 1..Len(saved["B"]) : saved["B"][i].bytes = <<>>
        /\ EofSent("A") =>
              \E j \in 1..Len(handled["A"]) :
                  IsAck(handled["A"][j]) /\ handled["A"][j].index = 0 - 1

(***************************************************************************)
(* C5: within one transfer the values the sender passes to setSendProgress *)
(* and those the receiver passes to setRecvProgress never decrease, lie in *)
(* 0..100, and the last one is 100 once the eof is sent / handled.         *)
(***************************************************************************)
C5_Progress ==
    /\ NonDecreasing(sendProgressLog["A"])
    /\ InPercentRange(sendProgressLog["A"])
    /\ EofSent("A") => (Last(sendProgressLog["A"]) = 100 /\ sendProgress["A"] = 100)
    /\ NonDecreasing(recvProgressLog["B"])
    /\ InPercentRange(recvProgressLog["B"])
    /\ EofHandled("B") => (Last(recvProgressLog["B"]) = 100 /\ recvProgress["B"] = 100)

C5_Witness ==
    /\ EofHandled("B")
    /\ sendProgressLog["A"] = <<0, 66, 100, 100>>
    /\ recvProgressLog["B"] = <<0, 66, 100, 100>>

(***************************************************************************)
(* C6: right after the receiver has handled a meta, in whatever state it   *)
(* was, receiveBuffers is empty, receivedBytes is 0, expectedChunks is the *)
(* number of pieces of the new meta and metaRef is the new meta; and an    *)
(* eof handled later saves exactly the chunks handled since that meta.     *)
(***************************************************************************)
C6_MetaResets ==
    LET h == handled["B"]
        m == Last(h)
    IN  h # <<>> =>
          /\ IsMeta(m) =>
                /\ receiveBuffers["B"] = <<>>
                /\ receivedBytes["B"] = 0
                /\ expectedChunks["B"] = NumPieces(m.size, m.chunkSize)
                /\ metaRef["B"] = m
          /\ (IsEof(m) /\ LastMetaPos(h) > 0) =>
                /\ saved["B"] # <<>>
                /\ Last(saved["B"]).bytes = PayloadFrom(h, LastMetaPos(h))

C6_Witness ==
    LET h == handled["B"]
    IN  /\ Len(h) = 5
        /\ IsMeta(h[1]) /\ IsChunk(h[2]) /\ IsMeta(h[3]) /\ IsChunk(h[4]) /\ IsEof(h[5])
        /\ h[2].payload = <<1, 0>>
        /\ h[3].size = 3
        /\ Last(saved["B"]).bytes = <<0>>

(***************************************************************************)
(* C7: a chunk or an eof handled while the receiver is Idle (no meta yet,  *)
(* or the last transfer already ended by an eof) changes neither           *)
(* receiveBuffers, receivedBytes, expectedChunks nor metaRef and saves     *)
(* nothing.  The source does not hold: the chunk branch appends whatever   *)
(* metaRef is, and the eof branch saves again after a finished transfer.   *)
(***************************************************************************)
C7_IdleIgnores ==
    [][ ( /\ recvIdle["B"]
          /\ handled'["B"] # handled["B"]
          /\ (IsChunk(Last(handled'["B"])) \/ IsEof(Last(handled'["B"]))) )
        => ( /\ receiveBuffers'["B"] = receiveBuffers["B"]
             /\ receivedBytes'["B"] = receivedBytes["B"]
             /\ expectedChunks'["B"] = expectedChunks["B"]
             /\ metaRef'["B"] = metaRef["B"]
             /\ saved'["B"] = saved["B"] ) ]_vars

(***************************************************************************)
(* C8: every chunk of one sendFile run carries chunkSize bytes, except the *)
(* last, which carries size - (n-1) * chunkSize (between 1 and chunkSize); *)
(* and the expectedChunks the receiver derives from the meta is n, the     *)
(* number of chunks the run sends.                                         *)
(***************************************************************************)
C8_ChunkLengths ==
    LET s == sendCalls["A"]
        S == file["A"].size
        n == NumPieces(S, chunkSize)
    IN  s # <<>> =>
          /\ \A i \in 1..Len(s) : IsChunk(s[i]) =>
                /\ s[i].index < n
                /\ Len(s[i].payload) =
                      (IF s[i].index < n - 1 THEN chunkSize ELSE S - (n - 1) * chunkSize)
                /\ Len(s[i].payload) \in 1..chunkSize
          /\ EofSent("A") => Cardinality({i \in 1..Len(s) : IsChunk(s[i])}) = n
          /\ metaRef["B"] # NULL => expectedChunks["B"] = n

C8_Witness ==
    /\ file["A"] # NULL
    /\ file["A"].size = chunkSize + 1
    /\ chunkSize = 2
    /\ EofSent("A")
    /\ Len(sendCalls["A"]) = 4
    /\ Len(sendCalls["A"][3].payload) = 1
    /\ expectedChunks["B"] = 2

(***************************************************************************)
(* C9: once the sender's close has fired (the close handler ran, or        *)
(* disconnect was called), its sendFile run passes nothing more to         *)
(* conn.send.  The source does not hold: the run keeps the connection its  *)
(* closure captured and never looks at its state.                          *)
(***************************************************************************)
C9_NoSendAfterClose ==
    [][ (chan = "closed" /\ ~attached["A"]) => sendCalls'["A"] = sendCalls["A"] ]_vars

(***************************************************************************)
(* C10: when the receiver's close fires between a meta and its eof, the    *)
(* partial transfer is discarded: afterwards metaRef is null,              *)
(* receiveBuffers is empty and receivedBytes is 0.  The source does not    *)
(* hold: the close handler resets none of the refs.                        *)
(***************************************************************************)
C10_CloseDiscards ==
    [][ (attached["B"] /\ ~attached'["B"] /\ ~recvIdle["B"])
        => ( /\ metaRef'["B"] = NULL
             /\ receiveBuffers'["B"] = <<>>
             /\ receivedBytes'["B"] = 0 ) ]_vars

(***************************************************************************)
(* Vocabulary of the later properties.                                     *)
(***************************************************************************)
\* the acks p's data handler has handled with index i
AckHandled(p, i) ==
    \E j \in 1..Len(handled[p]) : IsAck(handled[p][j]) /\ handled[p][j].index = i

AcksHandled(p) == Cardinality({j \in 1..Len(handled[p]) : IsAck(handled[p][j])})

\* the waits of waitForAck that p's invocations have come out of: each is
\* followed at once by the send of a chunk or of the eof
Passes(p) ==
    Cardinality({i \in 1..Len(sendCalls[p]) : ~IsMeta(sendCalls[p][i])})

\* the metas of h that an eof follows before the next meta
Completed(h) ==
    { i \in 1..Len(h) :
        /\ IsMeta(h[i])
        /\ \E j \in (i + 1)..Len(h) :
              IsEof(h[j]) /\ \A k \in (i + 1)..(j - 1) : ~IsMeta(h[k]) }

\* the acks owed to the messages h, one per meta and per chunk, in order
RECURSIVE AcksOwed(_)
AcksOwed(h) ==
    IF h = <<>> THEN <<>>
    ELSE (IF IsMeta(Head(h)) THEN <<[type |-> "ack", index |-> 0 - 1]>>
          ELSE IF IsChunk(Head(h)) THEN <<[type |-> "ack", index |-> Head(h).index]>>
          ELSE <<>>) \o AcksOwed(Tail(h))

Polling(r) == r.pc \in {"t148", "t155"}
InProgress(r) == r.pc \notin {"idle", "done"}

(***************************************************************************)
(* C11: in a run with at least one chunk the eof is sent only once the     *)
(* sender has handled the ack of the last chunk, index n - 1.  The source  *)
(* does not hold: the wait before the eof is satisfied by an earlier ack.  *)
(***************************************************************************)
C11_EofAfterLastAck ==
    (file["A"] # NULL /\ file["A"].size > 0 /\ EofSent("A"))
        => AckHandled("A", NumPieces(file["A"].size, chunkSize) - 1)

(***************************************************************************)
(* C12: the receiver saves one artifact per meta that an eof follows       *)
(* before the next meta; a second eof with no meta in between saves        *)
(* nothing.  The source does not hold: the eof branch leaves metaRef set.  *)
(***************************************************************************)
C12_SavedOncePerTransfer ==
    Len(saved["B"]) = Cardinality(Completed(handled["B"]))

(***************************************************************************)
(* C13: on a connection that stays open and delivers every message, with   *)
(* timers and continuations run, every invocation of sendFile sends its    *)
(* eof and the receiver saves the artifact, whatever busyRef was when the  *)
(* invocation started.  This form is for invocations that follow one       *)
(* another (SpecLive), where the second starts with either value of the    *)
(* flag; C13_NoStarvation below is the form for invocations that overlap.  *)
(***************************************************************************)
C13_Liveness ==
    /\ (run["A"].pc # "idle") ~> (run["A"].pc = "done" /\ Len(saved["B"]) >= 1)
    /\ (later["A"].pc # "idle") ~> (later["A"].pc = "done" /\ Len(saved["B"]) >= 2)

\* C13, with invocations that overlap: no invocation is left polling in
\* waitForAck with busyRef true when no message is in flight and no other
\* invocation is still to run, a state in which every later poll finds the
\* flag true.  The source does not hold.
C13_NoStarvation ==
    ~( /\ \/ Polling(run["A"])
          \/ Polling(later["A"])
       /\ run["A"].pc \in {"t148", "t155", "done"}
       /\ later["A"].pc \in {"t148", "t155", "done", "idle"}
       /\ busyRef["A"]
       /\ inbox["A"] = <<>>
       /\ inbox["B"] = <<>> )

(***************************************************************************)
(* C14: once the transport has lost a message of a transfer whose eof is   *)
(* not yet sent, the sender never sends the eof.  The source does not      *)
(* hold: the flag that is free when the run starts stands in for the ack   *)
(* that never comes.                                                       *)
(***************************************************************************)
C14_LossDeadlocks ==
    [][ (lost > 0 /\ ~EofSent("A")) => ~EofSent("A")' ]_vars

(***************************************************************************)
(* C15: a wait of waitForAck ends only in a step that finds busyRef false  *)
(* and leaves it true, one wait per step; so with two invocations polling, *)
(* the waits that have ended never exceed the flag's initial false plus    *)
(* the acks handled.                                                       *)
(***************************************************************************)
C15_AtomicCheckAndSet ==
    /\ [][ Passes("A")' # Passes("A")
           => ( /\ ~busyRef["A"]
                /\ busyRef'["A"]
                /\ Passes("A")' = Passes("A") + 1 ) ]_vars
    /\ [](Passes("A") <= 1 + AcksHandled("A"))

C15_Witness ==
    /\ Polling(run["A"])
    /\ Polling(later["A"])
    /\ busyRef["A"]
    /\ Passes("A") = 2
    /\ AcksHandled("A") = 1

(***************************************************************************)
(* C16: the acks the receiver sends are exactly one per meta handled       *)
(* (index -1) and one per chunk handled (the chunk's index), in the order  *)
(* handled, and none for an eof or an ack.                                 *)
(***************************************************************************)
C16_OneAckPerMessage ==
    /\ ackCalls["B"] = AcksOwed(handled["B"])
    /\ Len(ackCalls["B"]) =
          Cardinality({i \in 1..Len(handled["B"]) :
                          IsMeta(handled["B"][i]) \/ IsChunk(handled["B"][i])})

C16_Witness ==
    LET h == handled["B"]
    IN  /\ Len(h) = 4
        /\ IsMeta(h[1]) /\ IsChunk(h[2]) /\ IsEof(h[3]) /\ IsAck(h[4])
        /\ h[2].index = 1
        /\ Len(ackCalls["B"]) = 2
        /\ ackCalls["B"][2].index = 1

(***************************************************************************)
(* C17: while an invocation of sendFile is in progress no second one is    *)
(* started on the same sender.  The source does not hold: nothing keeps a  *)
(* second click from starting one.                                         *)
(***************************************************************************)
C17_OneRunAtATime ==
    ~(InProgress(run["A"]) /\ later["A"].pc # "idle")

(***************************************************************************)
(* C18: for a peer that sends and receives, handling a meta, a chunk or an *)
(* eof leaves its busyRef as it was, and handling an ack sets busyRef to   *)
(* false and leaves metaRef, receiveBuffers, receivedBytes and             *)
(* expectedChunks as they were.                                            *)
(***************************************************************************)
C18_DispatchByTag ==
    [][ \A p \in Peers :
          handled'[p] # handled[p] =>
             IF IsAck(Last(handled'[p]))
             THEN /\ busyRef'[p] = FALSE
                  /\ metaRef'[p] = metaRef[p]
                  /\ receiveBuffers'[p] = receiveBuffers[p]
                  /\ receivedBytes'[p] = receivedBytes[p]
                  /\ expectedChunks'[p] = expectedChunks[p]
             ELSE busyRef'[p] = busyRef[p] ]_vars

C18_Witness ==
    /\ handled["A"] # <<>>
    /\ IsChunk(Last(handled["A"]))
    /\ busyRef["A"]
    /\ Polling(run["A"])
    /\ AcksHandled("A") >= 1
    /\ receiveBuffers["B"] # <<>>

(***************************************************************************)
(* C19: once a run has sent its eof and every message and ack of the run   *)
(* has been delivered, busyRef is false.  The source does not hold: when   *)
(* the last ack is handled before the wait for the eof, the eof takes the  *)
(* flag and nothing clears it.                                             *)
(***************************************************************************)
C19_FlagFreeAfterRun ==
    (EofSent("A") /\ inbox["A"] = <<>> /\ inbox["B"] = <<>>) => ~busyRef["A"]

====
